---- MODULE Spec2Model ----
(***************************************************************************)
(* A state-machine model of the terminal session engine of src/script.js:  *)
(* the project cache, fetchProjects, normalizeProjects, the typewriter     *)
(* (typeText), the session run (printSession), the debounced refresh and   *)
(* init.  Time is the value of Date.now() in milliseconds.  Every macrotask *)
(* of the event loop (a timer callback, an event handler, the settling of  *)
(* a fetch) is one action; the promise continuations it releases run as    *)
(* microtasks inside the same action.                                      *)
(***************************************************************************)
EXTENDS Integers, Sequences, FiniteSets, TLC

VARIABLES
  now,        \* Date.now()
  phase,      \* "loading" before init() has run, then "ready" or "aborted"
  elements,   \* which of the three DOM collaborators getElementById found
  listeners,  \* the event listeners init registered
  cache,      \* projectsCache: [data, timestamp]
  screen,     \* the children of elements.screen, in document order
  updatedAt,  \* elements.updatedAt.textContent
  timers,     \* the pending setTimeout timers: [id, due, fn]
  timeout,    \* the variable `timeout` of debouncedRefresh's closure
  nextId,     \* the next timer id setTimeout returns
  runs,       \* the printSession calls, by the order they were started in
  nruns,      \* how many printSession calls have been started
  ncalls,     \* how many times debouncedRefresh has been called
  db,         \* history of the current burst of debouncedRefresh calls
  nfaults,    \* how many DOM operations have thrown (fault injection)
  nidle,      \* how many times the clock advanced with no timer driving it
  tw,         \* a typeText call on its own (specification SpecType)
  cacheOp,    \* history: the last operation on the cache and the last set
  nz          \* a normalizeProjects call on its own (specification SpecNorm)

vars == << now, phase, elements, listeners, cache, screen, updatedAt, timers,
           timeout, nextId, runs, nruns, ncalls, db, nfaults, nidle, tw, cacheOp,
           nz >>

----------------------------------------------------------------------------
(* Program constants *)

TYPING_SPEED == 22
CACHE_DURATION == 5 * 60 * 1000
DEBOUNCE_WAIT == 300
INIT_DELAY == 250

(* Bounds of the model *)

MaxCalls == 1          \* debouncedRefresh calls (clicks and 'r' keys)
MaxBurst == 2          \* debouncedRefresh calls when the network is down (SpecBurst)
MaxRuns == 2           \* printSession calls
MaxIdle == 1           \* clock advances that no timer drives
MaxCacheSteps == 2     \* clock advances of the cache on its own (SpecCache)
MaxLen == 3            \* length of the text of a typeText call on its own
MaxFaults == 1         \* DOM operations that throw (SpecFault only)
MaxEntries == 2        \* entries of the JSON value of a normalizeProjects call on its own

----------------------------------------------------------------------------
(* JavaScript values.  A string is a sequence of pieces (so that one piece *)
(* can be looked for in it); the empty string is the empty sequence.       *)

Null == [t |-> "null"]
Undefined == [t |-> "undefined"]
Num(n) == [t |-> "number", n |-> n]
Bool(b) == [t |-> "boolean", b |-> b]
Str(s) == [t |-> "string", s |-> s]
Arr(items) == [t |-> "array", items |-> items]
Obj(entries) == [t |-> "object", entries |-> entries]
Date(ms) == [t |-> "date", valid |-> TRUE, ms |-> ms]
InvalidDate == [t |-> "date", valid |-> FALSE, ms |-> 0]
Result(list, ts, error) == [t |-> "result", list |-> list, ts |-> ts, error |-> error]

\* Op applied to the value of v, which is computed once
Strict(v, Op(_)) == CHOOSE y \in { Op(x) : x \in { v } } : TRUE

Truthy(v) ==
  CASE v.t = "null" -> FALSE
    [] v.t = "undefined" -> FALSE
    [] v.t = "number" -> v.n # 0
    [] v.t = "boolean" -> v.b
    [] v.t = "string" -> v.s # << >>
    [] OTHER -> TRUE

\* a || b
Or(a, b) == IF Truthy(a) THEN a ELSE b

\* x.name : the value of the own property, undefined when there is none
RECURSIVE Lookup(_, _, _)
Lookup(entries, name, k) ==
  IF k > Len(entries) THEN Undefined
  ELSE IF entries[k].k = name THEN entries[k].v
  ELSE Lookup(entries, name, k + 1)

Prop(x, name) == IF x.t = "object" THEN Lookup(x.entries, name, 1) ELSE Undefined

----------------------------------------------------------------------------
(* projectsCache *)

\* validity as a test of the data against null instead of its truthiness
isValidNonNull(c, t) == c.data # Null /\ (t - c.timestamp < CACHE_DURATION)

\* an isValid() that never lets the data expire
isValidNoExpiry(c, t) == Truthy(c.data)

isValid(c, t) == Truthy(c.data) /\ (t - c.timestamp < CACHE_DURATION)

CacheSet(data, t) == [data |-> data, timestamp |-> t]

CacheClear == [data |-> Null, timestamp |-> 0]

----------------------------------------------------------------------------
(* normalizeProjects *)

KeepEntry(x) == Truthy(x) /\ Truthy(Or(Or(Prop(x, "url"), Prop(x, "href")), Prop(x, "label")))

\* json.filter(x => x && (x.url || x.href || x.label))
RECURSIVE FilterEntries(_)
FilterEntries(s) ==
  IF s = << >> THEN << >>
  ELSE (IF KeepEntry(Head(s)) THEN << Head(s) >> ELSE << >>) \o FilterEntries(Tail(s))

\* ({ label: x.label ?? x.url ?? x.href, url: x.url ?? x.href ?? '#' })
MapEntryNullish(x) ==
  LET Nullish(v) == v \in { Null, Undefined }
      Coalesce(a, b) == IF Nullish(a) THEN b ELSE a
  IN  [label |-> Coalesce(Coalesce(Prop(x, "label"), Prop(x, "url")), Prop(x, "href")),
       url |-> Coalesce(Coalesce(Prop(x, "url"), Prop(x, "href")), Str(<< "#" >>))]

MapEntry(x) ==
  [label |-> Or(Or(Prop(x, "label"), Prop(x, "url")), Prop(x, "href")),
   url |-> Or(Or(Prop(x, "url"), Prop(x, "href")), Str(<< "#" >>))]

\* a property key as a string value
KeyStr(key) == IF key = "" THEN Str(<< >>) ELSE Str(<< key >>)

\* the object branch with label and url exchanged
normalizeProjectsSwapped(json) ==
  IF ~Truthy(json) THEN << >>
  ELSE IF json.t = "array"
    THEN LET kept == FilterEntries(json.items)
         IN  [k \in 1..Len(kept) |-> MapEntry(kept[k])]
  ELSE IF json.t = "object"
    THEN [k \in 1..Len(json.entries) |->
            [label |-> json.entries[k].v, url |-> KeyStr(json.entries[k].k)]]
  ELSE << >>

normalizeProjects(json) ==
  IF ~Truthy(json) THEN << >>
  ELSE IF json.t = "array"
    THEN LET kept == FilterEntries(json.items)
         IN  [k \in 1..Len(kept) |-> MapEntry(kept[k])]
  ELSE IF json.t = "object"
    THEN [k \in 1..Len(json.entries) |->
            [label |-> KeyStr(json.entries[k].k), url |-> json.entries[k].v]]
  ELSE << >>

\* a call of normalizeProjects with its argument and the list returned, and
\* the list returned for that list in turn
NoNormalize ==
  [called |-> FALSE, json |-> Undefined, list |-> << >>, twice |-> FALSE, again |-> << >>]

----------------------------------------------------------------------------
(* typeText.  A target is the sequence of its child nodes: the cursor span *)
(* and one text node per revealed character.                               *)

Cursor == "<span.cursor>"

RECURSIVE IndexOf(_, _, _)
IndexOf(s, x, k) ==
  IF k > Len(s) THEN 0 ELSE IF s[k] = x THEN k ELSE IndexOf(s, x, k + 1)

\* cursor.insertAdjacentText('beforebegin', ch): nothing when the cursor has no parent
InsertBeforeCursor(target, ch) ==
  LET p == IndexOf(target, Cursor, 1)
  IN  IF p = 0 THEN target
      ELSE SubSeq(target, 1, p - 1) \o << ch >> \o SubSeq(target, p, Len(target))

\* cursor.remove()
RemoveCursor(target) ==
  LET p == IndexOf(target, Cursor, 1)
  IN  IF p = 0 THEN target
      ELSE SubSeq(target, 1, p - 1) \o SubSeq(target, p + 1, Len(target))

\* `pre`, `ticks` and `late` are history: the children of the target at the call,
\* the callbacks run, and those run after resolve() was called
NoTyping ==
  [target |-> << >>, text |-> << >>, speed |-> 0, i |-> 0, active |-> FALSE,
   due |-> 0, resolved |-> 0, pre |-> << >>, ticks |-> 0, late |-> 0]

\* the executor of the promise: the cursor is appended and the interval is set
TypeBegin(target, text, speed, t) ==
  [target |-> Append(target, Cursor), text |-> text, speed |-> speed, i |-> 0,
   active |-> TRUE, due |-> t + speed, resolved |-> 0, pre |-> target, ticks |-> 0,
   late |-> 0]

\* the callback without its resolve(): the interval is cleared, the cursor removed
TickStepNoResolve(ty, t) ==
  LET counted == [ty EXCEPT !.ticks = @ + 1, !.due = t + ty.speed]
  IN  IF ty.i < Len(ty.text)
        THEN [counted EXCEPT !.target = InsertBeforeCursor(@, ty.text[ty.i + 1]),
                             !.i = @ + 1]
        ELSE [counted EXCEPT !.active = FALSE, !.target = RemoveCursor(@)]

\* the callback without its clearInterval(id): the interval stays set
TickStepNoClear(ty, t) ==
  LET counted == [ty EXCEPT !.ticks = @ + 1,
                            !.late = @ + (IF ty.resolved > 0 THEN 1 ELSE 0),
                            !.due = t + ty.speed]
  IN  IF ty.i < Len(ty.text)
        THEN [counted EXCEPT !.target = InsertBeforeCursor(@, ty.text[ty.i + 1]),
                             !.i = @ + 1]
        ELSE [counted EXCEPT !.target = RemoveCursor(@), !.resolved = @ + 1]

\* one run of the interval's callback at time t
TickStep(ty, t) ==
  LET counted == [ty EXCEPT !.ticks = @ + 1,
                            !.late = @ + (IF ty.resolved > 0 THEN 1 ELSE 0),
                            !.due = t + ty.speed]
  IN  IF ty.i < Len(ty.text)
        THEN [counted EXCEPT !.target = InsertBeforeCursor(@, ty.text[ty.i + 1]),
                             !.i = @ + 1]
        ELSE [counted EXCEPT !.active = FALSE,
                             !.target = RemoveCursor(@),
                             !.resolved = @ + 1]

\* the callback when one of its DOM operations throws:
\*   "insert": insertAdjacentText throws (i++ has been evaluated);
\*   "remove": cursor.remove() throws (the interval is cleared, resolve() is not reached);
\*   "scroll": the scrollTop assignment throws (everything before it has run).
TickStepThrows(ty, t, what) ==
  LET counted == [ty EXCEPT !.ticks = @ + 1, !.due = t + ty.speed]
  IN  CASE what = "insert" -> [counted EXCEPT !.i = @ + 1]
        [] what = "remove" -> [counted EXCEPT !.active = FALSE]
        [] OTHER -> TickStep(ty, t)

TickCanThrow(ty, what) ==
  CASE what = "insert" -> ty.i < Len(ty.text)
    [] what = "remove" -> ty.i >= Len(ty.text)
    [] OTHER -> TRUE

----------------------------------------------------------------------------
(* The display surface: createLine, renderProjects, setUpdated, clearScreen *)

Line(kind, id, text, rows) ==
  [kind |-> kind, id |-> id, command |-> << >>, text |-> text, rows |-> rows]

PromptMarkup == << "<span class=\"prompt\">$</span> <span class=\"command\"></span>" >>
IdleMarkup == << "<span class=\"prompt\">$</span> <span class=\"blink cursor\" aria-hidden=\"true\"></span>" >>
\* (the dash of the source is written -- here)
NoProjectsText == << "no projects yet -- check back soon" >>
LoadErrorText == << "An error occurred while loading the terminal" >>
CouldNotLoadText == << "(could not load projects.json)" >>

\* <span class="output">text</span>
OutputMarkup(text) == << "<span class=\"output\">" >> \o text \o << "</span>" >>

LineKind(content) ==
  IF content = PromptMarkup THEN "prompt"
  ELSE IF content = IdleMarkup THEN "idle"
  ELSE "output"

\* the state a synchronous stretch of a run works on
Dom(scr, upd, log) ==
  [screen |-> scr, updatedAt |-> upd, log |-> log, thrown |-> FALSE,
   caught |-> FALSE, escaped |-> FALSE, raised |-> 0]

\* elements told apart by their position in the run alone
NewIdShared(st, r) == << 0, Len(st.log) + 1 >>

\* the identity of the element created next by run r
NewId(st, r) == << r, Len(st.log) + 1 >>

createLine(st, r, content) ==
  LET div == Line(LineKind(content), NewId(st, r), content, << >>)
  IN  [st EXCEPT !.screen = Append(@, div), !.log = Append(@, div)]

renderProjects(st, r, projects) ==
  LET container == Line("projects", NewId(st, r), << >>,
                        [k \in 1..Len(projects) |->
                           [href |-> projects[k].url, text |-> projects[k].label]])
  IN  [st EXCEPT !.screen = Append(@, container), !.log = Append(@, container)]

\* Date.prototype.toISOString: a RangeError for an Invalid Date
toISOString(ts) == << "ISO ", ToString(ts.ms) >>

setUpdated(st, r, ts, note) ==
  IF ~ts.valid THEN [st EXCEPT !.thrown = TRUE]
  ELSE LET text == << "last updated: " >> \o toISOString(ts)
                     \o (IF Truthy(note) THEN << " -- " >> \o note.s ELSE << >>)
       IN  [st EXCEPT !.updatedAt = Str(text),
                      !.log = Append(@, Line("status", NewId(st, r), text, << >>))]

\* a clearScreen that leaves the lines where they are
clearScreenNothing(st) == st

clearScreen(st) == [st EXCEPT !.screen = << >>]

\* one DOM call of printSession; `throws` when the call raises
Exec(st, r, o, throws) ==
  IF throws THEN [st EXCEPT !.thrown = TRUE, !.raised = @ + 1]
  ELSE CASE o.op = "createLine" -> createLine(st, r, o.content)
         [] o.op = "renderProjects" -> renderProjects(st, r, o.projects)
         [] o.op = "setUpdated" -> setUpdated(st, r, o.ts, o.note)
         [] OTHER -> clearScreen(st)

OpCreateLine(content) == [op |-> "createLine", content |-> content]
OpRender(projects) == [op |-> "renderProjects", projects |-> projects]
OpSetUpdated(ts, note) == [op |-> "setUpdated", ts |-> ts, note |-> note]

\* the calls ops[k..] in order, up to the first that throws; call number f throws
RECURSIVE ExecFrom(_, _, _, _, _)
ExecFrom(st, r, ops, k, f) ==
  Strict(st, LAMBDA s : IF k > Len(ops) \/ s.thrown THEN s
                        ELSE ExecFrom(Exec(s, r, ops[k], k = f), r, ops, k + 1, f))

\* the catch block of printSession, whose own createLine throws when cf
Catch(st, r, cf) ==
  IF cf THEN [st EXCEPT !.escaped = TRUE, !.raised = @ + 1]
  ELSE [createLine([st EXCEPT !.thrown = FALSE], r, OutputMarkup(LoadErrorText))
          EXCEPT !.caught = TRUE]

\* a stretch of the try block of printSession
Try(st, r, ops, f, cf) ==
  Strict(ExecFrom(st, r, ops, 1, f),
         LAMBDA after : IF after.thrown THEN Catch(after, r, cf) ELSE after)

----------------------------------------------------------------------------
(* fetchProjects.  A completion is what the async function settles with:  *)
(* a returned value, or (threw) an exception handed to its caller.         *)

Completion(threw, value, err) == [threw |-> threw, value |-> value, err |-> err]

NoCompletion == Completion(FALSE, Undefined, Null)

\* what fetch() settles with: a rejection, or a response
Rejected == [kind |-> "reject", status |-> 0, statusText |-> << >>, lastModified |-> Null]
Response(status, statusText, lastModified) ==
  [kind |-> "response", status |-> status, statusText |-> statusText,
   lastModified |-> lastModified]

\* res.ok
Ok(res) == res.status >= 200 /\ res.status <= 299

\* what res.json() settles with: a SyntaxError, or the parsed value
Unparsable == [parsed |-> FALSE, json |-> Undefined]
Parsed(json) == [parsed |-> TRUE, json |-> json]

FailedToFetch == Str(<< "Failed to fetch" >>)
UnexpectedToken == Str(<< "Unexpected token < in JSON at position 0" >>)

\* `HTTP ${res.status}: ${res.statusText}`
HttpMessage(res) == Str(<< "HTTP ", ToString(res.status), ": " >> \o res.statusText)

HttpDate == Str(<< "Thu, 01 Jan 1970 00:00:10 GMT" >>)

\* new Date(lastModified): an Invalid Date for a string that is no date
NewDate(s) == IF s = HttpDate THEN Date(10000) ELSE InvalidDate

\* a catch block that hands the failure on to the caller
FetchCatchRethrow(message, t) == Completion(TRUE, Undefined, message)

\* the catch block: the failure becomes a result
FetchCatch(message, t) == Completion(FALSE, Result(Null, Date(t), message), Null)

\* lines 105-112: the result of a parsed body
FetchResult(res, json, t) ==
  LET lastModified == res.lastModified
      timestamp == IF Truthy(lastModified) THEN NewDate(lastModified) ELSE Date(t)
  IN  Result(Arr(normalizeProjects(json)), timestamp, Null)

\* result.list.length >= 0
ShouldCacheAlways(result) == Len(result.list.items) >= 0

\* result.list.length > 0
ShouldCache(result) == Len(result.list.items) > 0

\* a cache whose timestamp is refreshed by a result that is not stored
CacheAfterTouch(c, result, t) ==
  IF ShouldCache(result) THEN CacheSet(result, t) ELSE [c EXCEPT !.timestamp = t]

\* the cache after the try block has built `result`
CacheAfter(c, result, t) == IF ShouldCache(result) THEN CacheSet(result, t) ELSE c

\* what fetchProjects does once fetch() has settled with `res`: "continue"
\* stands for the await of res.json()
AfterResponse(res, t) ==
  IF res.kind = "reject" THEN FetchCatch(FailedToFetch, t)
  ELSE IF ~Ok(res) THEN FetchCatch(HttpMessage(res), t)
  ELSE NoCompletion

\* what fetchProjects does once res.json() has settled with `body`
AfterBody(res, body, t) ==
  IF ~body.parsed THEN FetchCatch(UnexpectedToken, t)
  ELSE Completion(FALSE, FetchResult(res, body.json, t), Null)

----------------------------------------------------------------------------
(* printSession *)

COMMANDS ==
  << [text |-> << "w", "h", "o", "a", "m", "i" >>,
      output |-> << "shedrack@sheddy.work" >>],
     [text |-> << "e", "c", "h", "o", " ", "\"", "D", "e", "v", "O", "p", "s", " ",
                  "p", "l", "a", "y", "g", "r", "o", "u", "n", "d", "\"" >>,
      output |-> << "DevOps playground" >>],
     [text |-> << "l", "s" >>, output |-> << >>] >>

\* history of the run's call of fetchProjects: its time, whether the cache was
\* valid at the call, the cache then, the requests issued, how the request settled
\* ("reject", "http", "syntax", "ok") with which status, and the completion
NoFetch ==
  [called |-> FALSE, at |-> 0, valid |-> FALSE, requests |-> 0,
   stored |-> [data |-> Null, timestamp |-> 0], how |-> "none", status |-> 0,
   ret |-> NoCompletion]

Called(c, t, requests) ==
  [called |-> TRUE, at |-> t, valid |-> isValid(c, t), requests |-> requests,
   stored |-> c, how |-> "none", status |-> 0, ret |-> NoCompletion]

NoRun ==
  [pc |-> "idle", cmd |-> 0, el |-> << 0, 0 >>, ty |-> NoTyping,
   log |-> << >>, fp |-> NoFetch, threw |-> 0, uncaught |-> 0]

\* which DOM calls of a macrotask throw: clearScreen, call number `at` of the
\* try block, the createLine of the catch block, an operation of the tick
NoFault == [clear |-> FALSE, at |-> 0, catch |-> FALSE, tick |-> "none"]

FaultCount(F) ==
  (IF F.clear THEN 1 ELSE 0) + (IF F.at > 0 THEN 1 ELSE 0)
  + (IF F.catch THEN 1 ELSE 0) + (IF F.tick # "none" THEN 1 ELSE 0)

\* el.querySelector('.command') of the line with this id, when it is on the screen
SetCommand(scr, id, target) ==
  [k \in 1..Len(scr) |-> IF scr[k].id = id THEN [scr[k] EXCEPT !.command = target]
                         ELSE scr[k]]

\* `${errorMsg}` of line 157
ErrorMsg(error) ==
  IF Truthy(error) THEN << "(" >> \o error.s \o << ")" >> ELSE CouldNotLoadText

\* the DOM calls for a result with the status line set before the rendering
ResultOpsStatusFirst(result) ==
  (IF result.list = Null
     THEN << OpSetUpdated(result.ts, Str(<< "fetch error" >>)),
             OpCreateLine(OutputMarkup(ErrorMsg(result.error))),
             OpCreateLine(OutputMarkup(NoProjectsText)) >>
   ELSE IF Len(result.list.items) = 0
     THEN << OpSetUpdated(result.ts, Undefined),
             OpCreateLine(OutputMarkup(NoProjectsText)) >>
   ELSE << OpSetUpdated(result.ts, Undefined), OpRender(result.list.items) >>)
  \o << OpCreateLine(IdleMarkup) >>

\* lines 156-170: the DOM calls for the result of fetchProjects
ResultOps(result) ==
  (IF result.list = Null
     THEN << OpCreateLine(OutputMarkup(ErrorMsg(result.error))),
             OpCreateLine(OutputMarkup(NoProjectsText)),
             OpSetUpdated(result.ts, Str(<< "fetch error" >>)) >>
   ELSE IF Len(result.list.items) = 0
     THEN << OpCreateLine(OutputMarkup(NoProjectsText)),
             OpSetUpdated(result.ts, Undefined) >>
   ELSE << OpRender(result.list.items), OpSetUpdated(result.ts, Undefined) >>)
  \o << OpCreateLine(IdleMarkup) >>

\* how the run stands after a stretch that left the surface as st
Settle(run, st, pc) ==
  [run EXCEPT !.log = st.log,
              !.pc = IF st.escaped THEN "rejected"
                     ELSE IF st.caught THEN "failed" ELSE pc,
              !.threw = @ + st.raised,
              !.uncaught = @ + (IF st.escaped THEN 1 ELSE 0)]

Outcome(run, st, c) ==
  [run |-> run, screen |-> st.screen, updatedAt |-> st.updatedAt, cache |-> c]

\* lines 143-144, 147-148, 151-152: the prompt line has just been created;
\* typeText starts on its command span
BeginCommand(run, st, r, k, t, c) ==
  Strict(st, LAMBDA s :
    IF s.escaped \/ s.caught THEN Outcome(Settle(run, s, "typing"), s, c)
    ELSE LET el == s.log[Len(s.log)].id
             ty == TypeBegin(<< >>, COMMANDS[k].text, TYPING_SPEED, t)
         IN  Outcome([Settle(run, s, "typing") EXCEPT !.cmd = k, !.el = el, !.ty = ty],
                     [s EXCEPT !.screen = SetCommand(@, el, ty.target)], c))

\* lines 154-170, fetchProjects having settled with comp
AfterFetch(run, st, r, comp, F, c) ==
  Strict(IF comp.threw THEN Catch(st, r, F.catch)
         ELSE Try(st, r, ResultOps(comp.value), F.at, F.catch),
         LAMBDA end : Outcome(Settle([run EXCEPT !.fp.ret = comp], end, "done"), end, c))

\* line 140-144: the call of printSession, as run r at time t
StartSession(run, st, r, t, F, c) ==
  IF F.clear
    THEN Outcome([run EXCEPT !.pc = "rejected", !.threw = @ + 1, !.uncaught = @ + 1],
                 st, c)
  ELSE BeginCommand(run, Try(clearScreen(st), r, << OpCreateLine(PromptMarkup) >>,
                             F.at, F.catch), r, 1, t, c)

\* the continuation with a fetchProjects that never looks at the cache
AfterTypingNoCache(run, st, r, k, t, F, c) ==
  IF k < Len(COMMANDS)
    THEN BeginCommand(run, Try(st, r, << OpCreateLine(OutputMarkup(COMMANDS[k].output)),
                                        OpCreateLine(PromptMarkup) >>, F.at, F.catch),
                      r, k + 1, t, c)
  ELSE Outcome([run EXCEPT !.pc = "fetching", !.fp = Called(c, t, 1)], st, c)

\* the continuation that calls fetchProjects once the command before `ls` is typed
AfterTypingSkipLs(run, st, r, k, t, F, c) ==
  IF k < Len(COMMANDS) - 1
    THEN BeginCommand(run, Try(st, r, << OpCreateLine(OutputMarkup(COMMANDS[k].output)),
                                        OpCreateLine(PromptMarkup) >>, F.at, F.catch),
                      r, k + 1, t, c)
  ELSE IF isValid(c, t)
    THEN AfterFetch([run EXCEPT !.fp = Called(c, t, 0)], st, r,
                    Completion(FALSE, c.data, Null), F, c)
  ELSE Outcome([run EXCEPT !.pc = "fetching", !.fp = Called(c, t, 1)], st, c)

\* lines 145-154: the typeText of command k has resolved
AfterTyping(run, st, r, k, t, F, c) ==
  IF k < Len(COMMANDS)
    THEN BeginCommand(run, Try(st, r, << OpCreateLine(OutputMarkup(COMMANDS[k].output)),
                                        OpCreateLine(PromptMarkup) >>, F.at, F.catch),
                      r, k + 1, t, c)
  ELSE IF isValid(c, t)
    THEN AfterFetch([run EXCEPT !.fp = Called(c, t, 0)], st, r,
                    Completion(FALSE, c.data, Null), F, c)
  ELSE Outcome([run EXCEPT !.pc = "fetching", !.fp = Called(c, t, 1)], st, c)

----------------------------------------------------------------------------
(* The event loop: timers, events, the clock *)

\* clearTimeout(id)
ClearTimeout(ts, id) == { t \in ts : t.id # id }

Timer(id, due, fn) == [id |-> id, due |-> due, fn |-> fn]

\* the debounced function without its own clearTimeout(timeout)
DebouncedNoClear(ts, pending, id, t) == ts \cup { Timer(id, t + DEBOUNCE_WAIT, "later") }

\* lines 207-208 of executedFunction: the pending timers after a call at time t
Debounced(ts, pending, id, t) ==
  ClearTimeout(ts, pending) \cup { Timer(id, t + DEBOUNCE_WAIT, "later") }

\* the instants at which a timer or an interval is due
Dues ==
  { t.due : t \in timers }
  \cup { runs[r].ty.due : r \in { q \in 1..MaxRuns : runs[q].ty.active } }
  \cup (IF tw.active THEN { tw.due } ELSE { })

Min(S) == CHOOSE x \in S : \A y \in S : x <= y

\* e.key.toLowerCase()
ToLowerCase(key) == IF key = "R" THEN "r" ELSE key

Keys == { "r", "R", "x" }

Deltas == { CACHE_DURATION }
BurstDeltas == { DEBOUNCE_WAIT - 1 }
CacheDeltas == { 1, CACHE_DURATION - 1, CACHE_DURATION }

\* a guard that looks at the screen alone
AllPresentScreenOnly == elements.screen

\* line 222: none of the three is missing
AllPresent == elements.screen /\ elements.updatedAt /\ elements.refreshBtn

\* everything but the DOM collaborators found
Start ==
  /\ now = 0
  /\ phase = "loading"
  /\ listeners = [click |-> FALSE, keydown |-> FALSE]
  /\ cache = [data |-> Null, timestamp |-> 0]
  /\ screen = << >>
  /\ updatedAt = Str(<< >>)
  /\ timers = { }
  /\ timeout = 0
  /\ nextId = 1
  /\ runs = [r \in 1..MaxRuns |-> NoRun]
  /\ nruns = 0
  /\ ncalls = 0
  /\ db = [n |-> 0, last |-> 0, starts |-> 0, startedAt |-> 0]
  /\ nfaults = 0
  /\ nidle = 0
  /\ tw = NoTyping
  /\ cacheOp = [op |-> "none", live |-> FALSE, setAt |-> 0, payload |-> Null]
  /\ nz = NoNormalize

Init ==
  /\ elements \in [screen : BOOLEAN, updatedAt : BOOLEAN, refreshBtn : BOOLEAN]
  /\ Start

\* init(), run when the DOM is ready
InitPage ==
  /\ phase = "loading"
  /\ IF AllPresent
       THEN /\ phase' = "ready"
            /\ listeners' = [click |-> TRUE, keydown |-> TRUE]
            /\ timers' = timers \cup { Timer(nextId, now + INIT_DELAY, "printSession") }
            /\ nextId' = nextId + 1
       ELSE /\ phase' = "aborted"
            /\ UNCHANGED << listeners, timers, nextId >>
  /\ UNCHANGED << nz, now, elements, cache, screen, updatedAt, timeout, runs, nruns,
                  ncalls, db, nfaults, nidle, tw, cacheOp >>

\* a call of debouncedRefresh, the `limit`-th at most
DebouncedRefresh(limit) ==
  /\ ncalls < limit
  /\ nruns + Cardinality(ClearTimeout(timers, timeout)) + 1 <= MaxRuns
  /\ ncalls' = ncalls + 1
  /\ timers' = Debounced(timers, timeout, nextId, now)
  /\ timeout' = nextId
  /\ nextId' = nextId + 1
  /\ db' = IF db.n > 0 /\ now - db.last < DEBOUNCE_WAIT
             THEN [db EXCEPT !.n = @ + 1, !.last = now]
             ELSE [n |-> 1, last |-> now, starts |-> 0, startedAt |-> 0]
  /\ UNCHANGED << nz, now, phase, elements, listeners, cache, screen, updatedAt, runs,
                  nruns, nfaults, nidle, tw, cacheOp >>

\* a click on the refresh button
Click(limit) ==
  /\ elements.refreshBtn
  /\ listeners.click
  /\ DebouncedRefresh(limit)

\* onKeydown
Keydown(key, limit) ==
  /\ listeners.keydown
  /\ IF ToLowerCase(key) = "r" THEN DebouncedRefresh(limit) ELSE UNCHANGED vars

\* the faults asked for have all been raised, within the budget
Raised(r, out, F) ==
  /\ nfaults + FaultCount(F) <= MaxFaults
  /\ out.run.threw = runs[r].threw + FaultCount(F)
  /\ nfaults' = nfaults + FaultCount(F)

Commit(r, out) ==
  /\ runs' = [runs EXCEPT ![r] = out.run]
  /\ screen' = out.screen
  /\ updatedAt' = out.updatedAt
  /\ cache' = out.cache
  /\ cacheOp' = IF out.cache # cache
                  THEN [op |-> "set", live |-> TRUE, setAt |-> now,
                        payload |-> out.cache.data]
                  ELSE cacheOp

\* a due timer calls printSession: as `later` of the debounce, or as set by init
FireTimer(t, F) ==
  /\ t \in timers
  /\ t.due <= now
  /\ nruns < MaxRuns
  /\ F.tick = "none"
  /\ \E r \in { nruns + 1 } :
       \E out \in { StartSession(runs[r], Dom(screen, updatedAt, << >>), r, now, F, cache) } :
         /\ Raised(r, out, F)
         /\ Commit(r, out)
  /\ nruns' = nruns + 1
  /\ timers' = IF t.fn = "later" THEN ClearTimeout(timers \ { t }, timeout)
               ELSE timers \ { t }
  /\ db' = IF t.fn = "later" THEN [db EXCEPT !.starts = @ + 1, !.startedAt = now]
           ELSE db
  /\ UNCHANGED << nz, now, phase, elements, listeners, timeout, nextId, ncalls, nidle, tw >>

\* the interval of run r's typeText fires
Tick(r, F) ==
  /\ runs[r].ty.active
  /\ runs[r].ty.due <= now
  /\ ~F.clear
  /\ F.tick # "none" => TickCanThrow(runs[r].ty, F.tick)
  /\ \E run \in { runs[r] } :
     \E ty \in { IF F.tick = "none" THEN TickStep(run.ty, now)
                  ELSE TickStepThrows(run.ty, now, F.tick) } :
     \E typed \in { [run EXCEPT !.ty = ty,
                                 !.threw = @ + (IF F.tick = "none" THEN 0 ELSE 1),
                                 !.uncaught = @ + (IF F.tick = "none" THEN 0 ELSE 1)] } :
     \E st \in { Dom(SetCommand(screen, run.el, ty.target), updatedAt, run.log) } :
     \E out \in { IF run.pc = "typing" /\ run.ty.resolved = 0 /\ ty.resolved = 1
                     THEN AfterTyping(typed, st, r, run.cmd, now, F, cache)
                     ELSE Outcome(typed, st, cache) } :
       /\ Raised(r, out, F)
       /\ Commit(r, out)
  /\ UNCHANGED << nz, now, phase, elements, listeners, timers, timeout, nextId, nruns,
                  ncalls, db, nidle, tw >>

Statuses == { 200, 404 }
StatusText(status) == IF status = 200 THEN << "OK" >> ELSE << "Not Found" >>
LastModifieds == { Null, HttpDate, Str(<< "yesterday" >>) }

Responses ==
  { Rejected }
  \cup { Response(s, StatusText(s), lm) : s \in Statuses, lm \in LastModifieds }

Project(label, url) ==
  Obj(<< [k |-> "label", v |-> Str(<< label >>)], [k |-> "url", v |-> Str(<< url >>)] >>)

TwoProjects ==
  Arr(<< Project("a", "u1"), Obj(<< [k |-> "url", v |-> Str(<< "u2" >>)] >>) >>)

Bodies == { Unparsable, Parsed(Arr(<< >>)), Parsed(TwoProjects) }

\* the request of run r settles: fetch() with res and, for a response that is
\* ok, res.json() with body.  Between the two awaits nothing but locals of
\* fetchProjects changes, so they are one step here.
FetchSettle(r, res, body, F) ==
  /\ runs[r].pc = "fetching"
  /\ ~F.clear /\ F.tick = "none"
  /\ AfterResponse(res, now) # NoCompletion => body = Unparsable /\ res.lastModified = Null
  /\ \E run \in { runs[r] } :
     \E early \in { AfterResponse(res, now) } :
     \E comp \in { IF early # NoCompletion THEN early ELSE AfterBody(res, body, now) } :
     \E c \in { IF early = NoCompletion /\ body.parsed
                   THEN CacheAfter(cache, comp.value, now) ELSE cache } :
     \E how \in { IF res.kind = "reject" THEN "reject"
                   ELSE IF ~Ok(res) THEN "http"
                   ELSE IF ~body.parsed THEN "syntax" ELSE "ok" } :
     \E out \in { AfterFetch([run EXCEPT !.fp.how = how, !.fp.status = res.status],
                              Dom(screen, updatedAt, run.log), r, comp, F, c) } :
       /\ Raised(r, out, F)
       /\ Commit(r, out)
  /\ UNCHANGED << nz, now, phase, elements, listeners, timers, timeout, nextId, nruns,
                  ncalls, db, nidle, tw >>

\* the clock reaches the next instant a timer is due at
AdvanceToDue ==
  /\ Dues # { }
  /\ now < Min(Dues)
  /\ now' = Min(Dues)
  /\ UNCHANGED << nz, phase, elements, listeners, cache, screen, updatedAt, timers,
                  timeout, nextId, runs, nruns, ncalls, db, nfaults, nidle, tw, cacheOp >>

\* time passes with no timer due
AdvanceFree(d) ==
  /\ phase # "loading"
  /\ nidle < MaxIdle
  /\ Dues # { } => now + d < Min(Dues)
  /\ now' = now + d
  /\ nidle' = nidle + 1
  /\ UNCHANGED << nz, phase, elements, listeners, cache, screen, updatedAt, timers,
                  timeout, nextId, runs, nruns, ncalls, db, nfaults, tw, cacheOp >>

Next ==
  \/ InitPage
  \/ Click(MaxCalls)
  \/ \E key \in Keys : Keydown(key, MaxCalls)
  \/ \E t \in timers : FireTimer(t, NoFault)
  \/ \E r \in 1..MaxRuns : Tick(r, NoFault)
  \/ \E r \in 1..MaxRuns, res \in Responses, body \in Bodies :
        FetchSettle(r, res, body, NoFault)
  \/ AdvanceToDue
  \/ \E d \in Deltas : AdvanceFree(d)

Spec == Init /\ [][Next]_vars

----------------------------------------------------------------------------
(* The engine with the network down: every fetch() is rejected *)

NextBurst ==
  \/ InitPage
  \/ Click(MaxBurst)
  \/ \E key \in Keys : Keydown(key, MaxBurst)
  \/ \E t \in timers : FireTimer(t, NoFault)
  \/ \E r \in 1..MaxRuns : Tick(r, NoFault)
  \/ \E r \in 1..MaxRuns : FetchSettle(r, Rejected, Unparsable, NoFault)
  \/ AdvanceToDue
  \/ \E d \in BurstDeltas : AdvanceFree(d)

SpecBurst == Init /\ [][NextBurst]_vars

----------------------------------------------------------------------------
(* The engine under fairness.  The request settles in one way of each kind: *)
(* a rejection, an empty list, two projects, two projects with a            *)
(* Last-Modified that is no date.                                           *)

Settlements ==
  { << Rejected, Unparsable >>,
    << Response(200, StatusText(200), Null), Parsed(Arr(<< >>)) >>,
    << Response(200, StatusText(200), Null), Parsed(TwoProjects) >>,
    << Response(200, StatusText(200), Str(<< "yesterday" >>)), Parsed(TwoProjects) >> }

\* the tasks of the event loop: due timers and intervals, settled requests,
\* and the clock reaching the next instant a timer is due at
Machine ==
  \/ \E t \in timers : FireTimer(t, NoFault)
  \/ \E r \in 1..MaxRuns : Tick(r, NoFault)
  \/ \E r \in 1..MaxRuns, o \in Settlements : FetchSettle(r, o[1], o[2], NoFault)
  \/ AdvanceToDue

NextLive ==
  \/ InitPage
  \/ Click(MaxCalls)
  \/ \E key \in Keys : Keydown(key, MaxCalls)
  \/ Machine

\* the event loop runs a task that is ready, and every request settles
SpecLive == Init /\ [][NextLive]_vars /\ WF_vars(Machine)

----------------------------------------------------------------------------
(* The engine with no user input, and DOM operations that may throw *)

Faults ==
  [clear : BOOLEAN, at : 0..4, catch : BOOLEAN, tick : { "none", "insert", "remove", "scroll" }]

NextFault ==
  \/ InitPage
  \/ \E t \in timers, F \in Faults : FireTimer(t, F)
  \/ \E r \in 1..MaxRuns, F \in Faults : Tick(r, F)
  \/ \E r \in 1..MaxRuns, res \in Responses, body \in Bodies, F \in Faults :
        FetchSettle(r, res, body, F)
  \/ AdvanceToDue
  \/ \E d \in Deltas : AdvanceFree(d)

SpecFault == Init /\ [][NextFault]_vars

----------------------------------------------------------------------------
(* typeText on its own: one call, on any target, with any text *)

Chars == { "a", "b" }

Texts == UNION { [1..n -> Chars] : n \in 0..MaxLen }

Targets == { << >>, << "x" >> }

Speeds == { 1, TYPING_SPEED }

InitType ==
  /\ elements = [screen |-> TRUE, updatedAt |-> TRUE, refreshBtn |-> TRUE]
  /\ Start

TypeCall(target, text, speed) ==
  /\ tw = NoTyping
  /\ tw' = TypeBegin(target, text, speed, now)
  /\ UNCHANGED << nz, now, phase, elements, listeners, cache, screen, updatedAt, timers,
                  timeout, nextId, runs, nruns, ncalls, db, nfaults, nidle, cacheOp >>

TypeTick ==
  /\ tw.active
  /\ tw.due <= now
  /\ tw' = TickStep(tw, now)
  /\ UNCHANGED << nz, now, phase, elements, listeners, cache, screen, updatedAt, timers,
                  timeout, nextId, runs, nruns, ncalls, db, nfaults, nidle, cacheOp >>

NextType ==
  \/ \E target \in Targets, text \in Texts, speed \in Speeds : TypeCall(target, text, speed)
  \/ TypeTick
  \/ AdvanceToDue

SpecType == InitType /\ [][NextType]_vars

----------------------------------------------------------------------------
(* projectsCache on its own: any sequence of set, clear and clock advances *)

Listing == Arr(<< [label |-> Str(<< "a" >>), url |-> Str(<< "u1" >>)] >>)

Payloads ==
  { Null, Undefined, Num(0), Num(7), Str(<< >>), Str(<< "x" >>), Bool(FALSE),
    Arr(<< >>), Result(Listing, Date(10000), Null) }

DoSet(data) ==
  /\ cache' = CacheSet(data, now)
  /\ cacheOp' = [op |-> "set", live |-> TRUE, setAt |-> now, payload |-> data]
  /\ UNCHANGED << nz, now, phase, elements, listeners, screen, updatedAt, timers, timeout,
                  nextId, runs, nruns, ncalls, db, nfaults, nidle, tw >>

DoClear ==
  /\ cache' = CacheClear
  /\ cacheOp' = [cacheOp EXCEPT !.op = "clear", !.live = FALSE]
  /\ UNCHANGED << nz, now, phase, elements, listeners, screen, updatedAt, timers, timeout,
                  nextId, runs, nruns, ncalls, db, nfaults, nidle, tw >>

DoAdvance(d) ==
  /\ nidle < MaxCacheSteps
  /\ now' = now + d
  /\ nidle' = nidle + 1
  /\ cacheOp' = [cacheOp EXCEPT !.op = "advance"]
  /\ UNCHANGED << nz, phase, elements, listeners, cache, screen, updatedAt, timers, timeout,
                  nextId, runs, nruns, ncalls, db, nfaults, tw >>

NextCache ==
  \/ \E data \in Payloads : DoSet(data)
  \/ DoClear
  \/ \E d \in CacheDeltas : DoAdvance(d)

SpecCache == InitType /\ [][NextCache]_vars

----------------------------------------------------------------------------
(* normalizeProjects on its own: one call on a JSON value, and one more on *)
(* the list it returned                                                    *)

Absent == [t |-> "absent"]

Field(name, v) == IF v = Absent THEN << >> ELSE << [k |-> name, v |-> v] >>

\* the objects with or without a label, a url and an href
Entries ==
  { Obj(Field("label", l) \o Field("url", u) \o Field("href", h)) :
      l \in { Absent, Str(<< "a" >>), Str(<< >>), Null },
      u \in { Absent, Str(<< "u" >>), Str(<< >>), Num(7) },
      h \in { Absent, Str(<< "h" >>), Null } }
  \cup { Null, Num(5), Str(<< "s" >>), Bool(TRUE), Arr(<< >>) }

\* the key/value pairs of a map of projects
Pairs ==
  { [k |-> key, v |-> v] : key \in { "k", "m", "" },
                           v \in { Str(<< "u" >>), Str(<< >>), Null, Num(0) } }

Maps ==
  { Obj(e) : e \in { s \in UNION { [1..n -> Pairs] : n \in 0..MaxEntries } :
                       \A i, j \in DOMAIN s : i # j => s[i].k # s[j].k } }

Jsons ==
  { Arr(s) : s \in UNION { [1..n -> Entries] : n \in 0..MaxEntries } }
  \cup Maps
  \cup { TwoProjects, Null, Num(0), Num(3), Str(<< >>), Str(<< "x" >>), Bool(TRUE),
         Bool(FALSE) }

\* the entry { label, url } of a returned list as a JSON value
AsJson(e) == Obj(<< [k |-> "label", v |-> e.label], [k |-> "url", v |-> e.url] >>)

Normalize(json) ==
  /\ ~nz.called
  /\ nz' = [called |-> TRUE, json |-> json, list |-> normalizeProjects(json),
            twice |-> FALSE, again |-> << >>]
  /\ UNCHANGED << now, phase, elements, listeners, cache, screen, updatedAt, timers,
                  timeout, nextId, runs, nruns, ncalls, db, nfaults, nidle, tw, cacheOp >>

NormalizeAgain ==
  /\ nz.called
  /\ ~nz.twice
  /\ nz' = [nz EXCEPT !.twice = TRUE,
                      !.again = normalizeProjects(
                                  Arr([k \in 1..Len(nz.list) |-> AsJson(nz.list[k])]))]
  /\ UNCHANGED << now, phase, elements, listeners, cache, screen, updatedAt, timers,
                  timeout, nextId, runs, nruns, ncalls, db, nfaults, nidle, tw, cacheOp >>

NextNorm ==
  \/ \E json \in Jsons : Normalize(json)
  \/ NormalizeAgain

SpecNorm == InitType /\ [][NextNorm]_vars

----------------------------------------------------------------------------
(* Properties of typeText, checked under SpecType *)

Revealed(ty) == SubSeq(ty.text, 1, ty.i)

\* C10: for typeText(target, text, speed) with a text of any length n >= 0, the
\* cursor is appended to the target before any character; the characters are
\* revealed in order in front of the cursor, at most one per tick; the promise
\* resolves once, only after all n characters are revealed; the cursor is
\* removed at resolution; and no tick of the call runs after resolution.
C10_TypeTextContract ==
  tw.speed > 0 =>
    /\ tw.i <= tw.ticks
    /\ tw.i <= Len(tw.text)
    /\ tw.resolved <= 1
    /\ tw.late = 0
    /\ tw.active <=> (tw.resolved = 0)
    /\ tw.resolved = 0 => tw.target = tw.pre \o Revealed(tw) \o << Cursor >>
    /\ tw.resolved = 1 =>
         /\ tw.i = Len(tw.text)
         /\ tw.ticks = Len(tw.text) + 1
         /\ tw.target = tw.pre \o tw.text

\* a call with a two-character text on a non-empty target has resolved
C10_Resolved ==
  /\ tw.resolved = 1
  /\ Len(tw.text) = 2
  /\ tw.pre # << >>
  /\ tw.target = tw.pre \o tw.text

----------------------------------------------------------------------------
(* Properties of projectsCache, checked under SpecCache *)

Fresh == now - cacheOp.setAt < CACHE_DURATION

\* C6 (amended): under any sequence of set, clear and clock advances, isValid()
\* holds exactly while the last set has not been followed by a clear, its
\* payload is truthy, and less than CACHE_DURATION has elapsed since it; so it
\* holds immediately after a set of a truthy payload, no longer holds once
\* CACHE_DURATION has elapsed since the last set, and never holds after clear().
C6_ValidIffTruthyAndFresh ==
  /\ isValid(cache, now) <=> (cacheOp.live /\ Truthy(cacheOp.payload) /\ Fresh)
  /\ (cacheOp.op = "set" /\ Truthy(cacheOp.payload)) => isValid(cache, now)
  /\ (cacheOp.live /\ ~Fresh) => ~isValid(cache, now)
  /\ cacheOp.op = "clear" => ~isValid(cache, now)

\* the number 0 has just been stored, and the cache is not valid
C6_FalsyPayloadStored ==
  /\ cacheOp.op = "set"
  /\ cacheOp.payload = Num(0)
  /\ cache.data = Num(0)
  /\ ~isValid(cache, now)

\* C6 (as stated): isValid() holds immediately after set(data) for any stored
\* payload, holds exactly while data is non-null and now - timestamp is less
\* than CACHE_DURATION, and is false after clear().
C6_ValidIffNonNullAndFresh ==
  /\ cacheOp.op = "set" => isValid(cache, now)
  /\ isValid(cache, now) <=> (cache.data # Null /\ now - cache.timestamp < CACHE_DURATION)
  /\ cacheOp.op = "clear" => ~isValid(cache, now)

----------------------------------------------------------------------------
(* Properties of the debounce, checked under SpecBurst *)

Later == { t \in timers : t.fn = "later" }

\* C2: for the current burst of N >= 1 calls of debouncedRefresh, each less
\* than 300ms after the one before: while its timer is pending printSession has
\* not been started for it; once the timer is gone printSession has been started
\* exactly once for the burst, at least 300ms after the last call of the burst.
C2_DebounceOnce ==
  /\ Cardinality(Later) <= 1
  /\ db.n > 0 =>
       /\ Later # { } =>
            /\ db.starts = 0
            /\ \A t \in Later : t.due = db.last + DEBOUNCE_WAIT /\ t.id = timeout
       /\ Later = { } =>
            /\ db.starts = 1
            /\ db.startedAt >= db.last + DEBOUNCE_WAIT

\* a burst of two calls has started its one run
C2_BurstOfTwoStarted ==
  /\ db.n = 2
  /\ db.starts = 1
  /\ Later = { }
  /\ nruns = 2
  /\ runs[2].pc # "idle"

----------------------------------------------------------------------------
(* Properties of a run of printSession and of fetchProjects, checked under *)
(* Spec (SpecFault for C8, SpecLive for C7)                                *)

Runs == 1..MaxRuns

\* the call of fetchProjects of run r has returned
Returned(r) == runs[r].fp.called /\ runs[r].pc # "fetching"

Kinds(log) == [k \in 1..Len(log) |-> log[k].kind]

ErrorLines(log) == { k \in 1..Len(log) : log[k].text = OutputMarkup(LoadErrorText) }

\* the lines of the scripted commands as the code appends them: a prompt and an
\* output line for whoami and for echo, and the prompt of ls alone
ScriptLines(log) ==
  /\ Len(log) >= 5
  /\ SubSeq(Kinds(log), 1, 5) = << "prompt", "output", "prompt", "output", "prompt" >>
  /\ log[2].text = OutputMarkup(COMMANDS[1].output)
  /\ log[4].text = OutputMarkup(COMMANDS[2].output)

\* the container of projects with one link row per project, in order
Container(line, items) ==
  /\ line.kind = "projects"
  /\ Len(line.rows) = Len(items)
  /\ \A k \in 1..Len(items) :
       line.rows[k] = [href |-> items[k].url, text |-> items[k].label]

\* the status line set by the run, with or without the note
StatusLine(line, note) ==
  /\ line.kind = "status"
  /\ line.text[1] = "last updated: "
  /\ IF note = << >> THEN Len(line.text) = 3
     ELSE Len(line.text) = 5 /\ line.text[5] = note[1]

\* C1 (amended): for a run of printSession whose fetchProjects returned two
\* projects, the lines appended by the run are exactly: a prompt line and its
\* static output line for whoami, the same for echo, the prompt line of ls with
\* no static output line, one projects container with 2 link rows, the status
\* line update and one final idle prompt; when the timestamp of the result is
\* an Invalid Date the container is followed by the generic failure line alone.
\* No project content is appended before the lines of the scripted commands.
C1_LineSequence ==
  \A r \in Runs :
    LET log == runs[r].log
        v == runs[r].fp.ret.value
    IN  /\ (\E k \in 1..Len(log) : log[k].kind = "projects") =>
             /\ ScriptLines(log)
             /\ log[6].kind = "projects"
             /\ runs[r].cmd = Len(COMMANDS)
        /\ (Returned(r) /\ v.list # Null /\ Len(v.list.items) = 2) =>
             /\ ScriptLines(log)
             /\ Container(log[6], v.list.items)
             /\ IF v.ts.valid
                  THEN /\ Len(log) = 8
                       /\ StatusLine(log[7], << >>)
                       /\ log[8].kind = "idle"
                       /\ runs[r].pc = "done"
                  ELSE /\ Len(log) = 7
                       /\ ErrorLines(log) = { 7 }
                       /\ runs[r].pc = "failed"

\* a run that fetched two projects over the network has appended its eight lines
C1_TwoProjectsShown ==
  \E r \in Runs :
    /\ runs[r].pc = "done"
    /\ runs[r].fp.requests = 1
    /\ Kinds(runs[r].log) = << "prompt", "output", "prompt", "output", "prompt",
                               "projects", "status", "idle" >>
    /\ Len(runs[r].fp.ret.value.list.items) = 2

\* C1 (as stated): for a run with a fetch returning two projects the lines
\* appended are three (prompt line, static output line) pairs, one projects
\* container with 2 link rows, the status line update and one final idle prompt.
C1_ThreePairs ==
  \A r \in Runs :
    LET log == runs[r].log
        v == runs[r].fp.ret.value
    IN  (Returned(r) /\ v.list # Null /\ Len(v.list.items) = 2) =>
          /\ Kinds(log) = << "prompt", "output", "prompt", "output", "prompt", "output",
                             "projects", "status", "idle" >>
          /\ Len(log[7].rows) = 2

\* C3: every call of fetchProjects that has settled returned a result and did
\* not throw; after a network rejection, a non-success status or a body that
\* does not parse the result has list null and an error message (with the
\* status code in it for a non-success status); and in every result returned
\* the error is non-null exactly when the list is null.
C3_FetchNeverThrows ==
  \A r \in Runs :
    Returned(r) =>
      LET fp == runs[r].fp
          v == fp.ret.value
      IN  /\ ~fp.ret.threw
          /\ v.t = "result"
          /\ (v.error # Null) <=> (v.list = Null)
          /\ fp.how \in { "reject", "http", "syntax" } =>
               /\ v.list = Null
               /\ v.error.t = "string"
               /\ Truthy(v.error)
               /\ v.ts.valid
          /\ fp.how = "http" =>
               \E k \in 1..Len(v.error.s) : v.error.s[k] = ToString(fp.status)
          /\ fp.how = "ok" => v.list.t = "array"

\* a request answered 404 has been turned into a result
C3_NotFoundReturned ==
  \E r \in Runs :
    /\ Returned(r)
    /\ runs[r].fp.how = "http"
    /\ runs[r].fp.status = 404
    /\ runs[r].fp.ret.value.list = Null
    /\ runs[r].pc = "done"

\* C4: a call of fetchProjects made while isValid() holds returns the very
\* result that set stored (its list, its timestamp, error null), in the same
\* task, and issues no request.
C4_CacheHit ==
  /\ cacheOp.live => cache = [data |-> cacheOp.payload, timestamp |-> cacheOp.setAt]
  /\ \A r \in Runs :
       (runs[r].fp.called /\ runs[r].fp.valid) =>
         /\ runs[r].fp.requests = 0
         /\ Returned(r)
         /\ ~runs[r].fp.ret.threw
         /\ runs[r].fp.ret.value = runs[r].fp.stored.data
         /\ runs[r].fp.ret.value.error = Null
         /\ runs[r].fp.how = "none"

\* the second run found the result cached by the first
C4_ServedFromCache ==
  /\ runs[1].fp.requests = 1
  /\ runs[1].fp.how = "ok"
  /\ runs[2].fp.valid
  /\ runs[2].fp.requests = 0
  /\ runs[2].fp.ret.value = runs[1].fp.ret.value
  /\ runs[2].pc = "done"

EmptyFetched(run) ==
  /\ run.fp.how = "ok"
  /\ run.fp.ret.value.list = Arr(<< >>)

\* C5: when a request succeeds with a body that normalizes to the empty list,
\* fetchProjects returns list [] and error null and leaves the cache as it
\* was; and a call of fetchProjects made after that, the cache not having been
\* set in between, issues a request.
C5_EmptyNotCached ==
  [][\A r \in Runs :
       /\ (runs[r].pc = "fetching" /\ runs'[r].pc # "fetching" /\ EmptyFetched(runs'[r])) =>
            /\ cache' = cache
            /\ cacheOp' = cacheOp
            /\ runs'[r].fp.ret.value.error = Null
       /\ (/\ ~runs[r].fp.called
           /\ runs'[r].fp.called
           /\ \E q \in Runs : EmptyFetched(runs[q]) /\ cache = runs[q].fp.stored) =>
            /\ runs'[r].fp.requests = 1
            /\ runs'[r].pc = "fetching"]_vars

\* the first run fetched an empty list, and the second, with the cache never
\* set, has issued its own request
C5_Refetched ==
  /\ EmptyFetched(runs[1])
  /\ runs[1].pc = "done"
  /\ cacheOp.op = "none"
  /\ runs[2].fp.called
  /\ runs[2].fp.requests = 1
  /\ runs[2].fp.stored = runs[1].fp.stored

\* C8 (as stated): when a step of a run raises an exception, the run catches
\* it, appends exactly one generic failure line, and reaches its terminal state.
C8_ExceptionsCaught ==
  \A r \in Runs :
    runs[r].threw > 0 =>
      /\ runs[r].uncaught = 0
      /\ runs[r].pc = "failed"
      /\ Cardinality(ErrorLines(runs[r].log)) = 1

\* C9 (as stated): after fetchProjects has returned, the run appends, after
\* the prompt of ls: for a null list an error line, the "no projects yet" line
\* and the status line with the note "fetch error"; for an empty list the "no
\* projects yet" line and the status line with no note; otherwise the rendered
\* projects and the status line with no note; and then the final idle prompt.
C9_ThreeBranches ==
  \A r \in Runs :
    Returned(r) =>
      LET log == runs[r].log
          v == runs[r].fp.ret.value
          n == Len(log)
      IN  /\ runs[r].pc = "done"
          /\ log[n].kind = "idle"
          /\ IF v.list = Null
               THEN /\ n = 9
                    /\ log[6].text = OutputMarkup(ErrorMsg(v.error))
                    /\ log[7].text = OutputMarkup(NoProjectsText)
                    /\ StatusLine(log[8], << "fetch error" >>)
             ELSE IF v.list.items = << >>
               THEN /\ n = 8
                    /\ log[6].text = OutputMarkup(NoProjectsText)
                    /\ StatusLine(log[7], << >>)
             ELSE /\ n = 8
                  /\ Container(log[6], v.list.items)
                  /\ StatusLine(log[7], << >>)

Terminal == { "done", "failed" }

\* the screen shows, among the lines of run r, the project links, the "no
\* projects yet" line, the error of the fetch, or the generic failure line
Visible(scr, r, run) ==
  \E k \in 1..Len(scr) :
    /\ scr[k].id[1] = r
    /\ \/ scr[k].kind = "projects" /\ Len(scr[k].rows) > 0
       \/ scr[k].text = OutputMarkup(NoProjectsText)
       \/ scr[k].text = OutputMarkup(LoadErrorText)
       \/ /\ run.fp.ret.value.t = "result"
          /\ scr[k].text = OutputMarkup(ErrorMsg(run.fp.ret.value.error))

\* C7: every started run of printSession, whatever its fetch settles with,
\* eventually reaches a terminal state when due timers keep firing and the
\* request settles; and at the step that ends the run the screen shows the
\* project links, the "no projects yet" line, an error line of the fetch or the
\* generic failure line.
C7_RunsTerminate ==
  /\ \A r \in Runs : (runs[r].pc \in { "typing", "fetching" }) ~> (runs[r].pc \in Terminal)
  /\ [][\A r \in Runs :
          (runs[r].pc \notin Terminal /\ runs'[r].pc \in Terminal) =>
            Visible(screen', r, runs'[r])]_vars

\* a run whose request was rejected has ended with the error on the screen
C7_EndedAfterFailure ==
  \E r \in Runs :
    /\ runs[r].pc = "done"
    /\ runs[r].fp.how = "reject"
    /\ Visible(screen, r, runs[r])

----------------------------------------------------------------------------
(* Properties of normalizeProjects, checked under SpecNorm *)

Populated(e) ==
  /\ e.label.t = "string"
  /\ e.label.s # << >>
  /\ e.url \notin { Null, Undefined }

\* C11 (as stated): for every JSON value, every entry of the list returned by
\* normalizeProjects has a label that is a non-empty string and a url that is
\* present.
C11_FieldsPopulated ==
  nz.called => \A k \in 1..Len(nz.list) : Populated(nz.list[k])

FieldNames == { "url", "href", "label" }

Has(x, name) == x.t = "object" /\ \E k \in 1..Len(x.entries) : x.entries[k].k = name

Present(v) == v \notin { Null, Undefined }

\* the value of the first of the named fields of x that P holds of
FirstWhere(x, names, P(_), default) ==
  LET hits == { i \in 1..Len(names) : P(Prop(x, names[i])) }
  IN  IF hits = { } THEN default ELSE Prop(x, names[Min(hits)])

\* the j-th smallest element of a set of numbers
Nth(S, j) == CHOOSE k \in S : Cardinality({ i \in S : i <= k }) = j

\* the entries Keep holds of, in input order, each mapped to the first of
\* label, url, href and the first of url, href, '#' that P holds of
Selected(items, Keep(_), P(_)) ==
  LET idx == { k \in 1..Len(items) : Keep(items[k]) }
  IN  [j \in 1..Cardinality(idx) |->
         [label |-> FirstWhere(items[Nth(idx, j)], << "label", "url", "href" >>, P,
                               Undefined),
          url |-> FirstWhere(items[Nth(idx, j)], << "url", "href" >>, P,
                             Str(<< "#" >>))]]

KeptTruthy(x) == x.t = "object" /\ \E n \in FieldNames : Truthy(Prop(x, n))

KeptPossessing(x) == \E n \in FieldNames : Has(x, n)

Example == << [label |-> Str(<< "a" >>), url |-> Str(<< "u1" >>)],
              [label |-> Str(<< "u2" >>), url |-> Str(<< "u2" >>)] >>

\* C12 (amended): for every array, normalizeProjects keeps, in input order,
\* exactly the entries that are objects with a truthy url, href or label, and
\* maps each to {label: label || url || href, url: url || href || '#'}, the
\* first field that is truthy; [{label:a,url:u1},{url:u2}] gives
\* [{label:a,url:u1},{label:u2,url:u2}].
C12_FirstTruthy ==
  (nz.called /\ nz.json.t = "array") =>
    /\ nz.list = Selected(nz.json.items, KeptTruthy, Truthy)
    /\ nz.json = TwoProjects => nz.list = Example

\* an entry with an empty label and a url has been given the url as its label
C12_EmptyLabelSkipped ==
  /\ nz.called
  /\ nz.json = Arr(<< Obj(<< [k |-> "label", v |-> Str(<< >>)],
                            [k |-> "url", v |-> Str(<< "u" >>)] >>) >>)
  /\ nz.list = << [label |-> Str(<< "u" >>), url |-> Str(<< "u" >>)] >>

\* C12 (as stated): for every array, normalizeProjects keeps, in input order,
\* exactly the entries that are objects possessing a url, href or label field,
\* and maps each to {label: label ?? url ?? href, url: url ?? href ?? '#'}, the
\* first field that is present.
C12_FirstPresent ==
  (nz.called /\ nz.json.t = "array") =>
    nz.list = Selected(nz.json.items, KeptPossessing, Present)

\* C13: for every map of projects, normalizeProjects returns one entry per own
\* key, in the iteration order of the object, with the key as label and its
\* value as url; the list has as many entries as the object has own keys.
C13_MapEntries ==
  (nz.called /\ nz.json.t = "object") =>
    /\ Len(nz.list) = Len(nz.json.entries)
    /\ \A k \in 1..Len(nz.list) :
         /\ nz.list[k].label.t = "string"
         /\ nz.list[k].label.s = (IF nz.json.entries[k].k = "" THEN << >>
                                  ELSE << nz.json.entries[k].k >>)
         /\ nz.list[k].url = nz.json.entries[k].v

\* a map of two keys has been turned into two entries, in order
C13_TwoKeys ==
  /\ nz.called
  /\ nz.json = Obj(<< [k |-> "m", v |-> Str(<< "u" >>)], [k |-> "k", v |-> Null] >>)
  /\ nz.list = << [label |-> Str(<< "m" >>), url |-> Str(<< "u" >>)],
                  [label |-> Str(<< "k" >>), url |-> Null] >>

\* C14 (as stated): for every list that normalizeProjects returned,
\* normalizeProjects of that list is equal to it.
C14_Idempotent ==
  nz.twice => nz.again = nz.list

----------------------------------------------------------------------------
(* Properties of init and of overlapping runs, checked under Spec *)

\* C15: if the screen, the status element or the refresh button is missing at
\* init, initialization aborts: no click or keydown listener is registered, no
\* initial run is scheduled, and no run of printSession ever starts.
C15_InitAborts ==
  (~elements.screen \/ ~elements.updatedAt \/ ~elements.refreshBtn) =>
    /\ phase \in { "loading", "aborted" }
    /\ listeners = [click |-> FALSE, keydown |-> FALSE]
    /\ timers = { }
    /\ ncalls = 0
    /\ nruns = 0
    /\ \A r \in Runs : runs[r] = NoRun
    /\ screen = << >>

\* init has aborted for want of the status element, and time has passed since
C15_AbortedAndIdle ==
  /\ phase = "aborted"
  /\ ~elements.updatedAt
  /\ elements.screen /\ elements.refreshBtn
  /\ nidle = 1
  /\ now > 0

ResultKinds == { "projects", "status", "idle" }

\* the lines run r appends in the step
Appended(r) == SubSeq(runs'[r].log, Len(runs[r].log) + 1, Len(runs'[r].log))

\* the interval of the typeText of command k of the run is at its last tick:
\* every character of the command is revealed, and this tick resolves it
LastTick(run, k) ==
  /\ run.cmd = k
  /\ run.ty.active
  /\ run.ty.text = COMMANDS[k].text
  /\ run.ty.i = Len(COMMANDS[k].text)
  /\ run.ty.target = COMMANDS[k].text \o << Cursor >>
  /\ TickStep(run.ty, now).resolved = 1

\* C16: within one run of printSession, the typeText of each scripted command
\* has resolved before the prompt line of the next command is created, and
\* fetchProjects is called, and any result, error or "no projects" line is
\* rendered, only after the typeText of the last scripted command has resolved.
C16_TypingBeforeNext ==
  [][\A r \in Runs :
       LET run == runs[r]
           next == runs'[r]
       IN  /\ (run.cmd >= 1 /\ \E k \in 1..Len(Appended(r)) : Appended(r)[k].kind = "prompt") =>
                /\ LastTick(run, run.cmd)
                /\ next.cmd = run.cmd + 1
           /\ next.cmd # run.cmd => next.cmd = run.cmd + 1 /\ next.ty.i = 0
           /\ (~run.fp.called /\ next.fp.called) => LastTick(run, Len(COMMANDS))
           /\ next.fp.called =>
                /\ next.cmd = Len(COMMANDS)
                /\ ~next.ty.active
                /\ next.ty.resolved = 1
           /\ (\E k \in 1..Len(Appended(r)) :
                 \/ Appended(r)[k].kind \in ResultKinds
                 \/ Appended(r)[k].text = OutputMarkup(NoProjectsText)
                 \/ Appended(r)[k].text = OutputMarkup(LoadErrorText)) =>
                /\ next.fp.called
                /\ run.fp.called \/ LastTick(run, Len(COMMANDS))]_vars

\* a run is waiting for its request with the three commands typed
C16_FetchingAfterLs ==
  \E r \in Runs :
    /\ runs[r].pc = "fetching"
    /\ runs[r].cmd = Len(COMMANDS)
    /\ runs[r].ty.resolved = 1
    /\ Kinds(runs[r].log) = << "prompt", "output", "prompt", "output", "prompt" >>

Ids(lines) == [k \in 1..Len(lines) |-> lines[k].id]

InFlight(r) == runs[r].pc \in { "typing", "fetching" }

\* a line that createLine or renderProjects puts on the screen
OnScreen(line) == line.kind # "status"

\* a run of printSession starts in the step
Starts(r) == runs[r].pc = "idle" /\ runs'[r].pc # "idle"

\* C17: runs of printSession are not mutually exclusive.  The start of a run
\* (by the debounce or by the timer of init) leaves every earlier run as it
\* is, in flight if it was, and every line a run appends goes to the end of the
\* one shared screen, which the start of a run has emptied first; so an
\* earlier run in flight appends after the clearScreen of a later one.
C17_NoMutualExclusion ==
  [][\A r \in Runs :
       /\ Starts(r) => \A q \in Runs \ { r } : runs'[q] = runs[q]
       /\ runs'[r].log # runs[r].log =>
            Ids(screen') = (IF Starts(r) THEN << >> ELSE Ids(screen))
                           \o Ids(SelectSeq(Appended(r), OnScreen))]_vars

\* two runs are in flight, and below a line of the later run, which cleared
\* the screen at its start, the screen shows a line of the earlier run
C17_Interleaved ==
  /\ InFlight(1)
  /\ InFlight(2)
  /\ \E j, k \in 1..Len(screen) :
       /\ j < k
       /\ screen[j].id[1] = 2
       /\ screen[k].id[1] = 1

\* C18: in every reachable state, runs overlapping or not, no two typeText
\* animations are in flight against the same element: the interval of a run is
\* set only while its promise is unresolved, on the command span of the prompt
\* line the run created last, and no two lines are the same element.
C18_OneTypingPerTarget ==
  /\ \A r \in Runs :
       runs[r].ty.active =>
         /\ runs[r].ty.resolved = 0
         /\ runs[r].pc = "typing"
         /\ Len(runs[r].log) > 0
         /\ runs[r].el = runs[r].log[Len(runs[r].log)].id
         /\ runs[r].log[Len(runs[r].log)].kind = "prompt"
         /\ \A k \in 1..(Len(runs[r].log) - 1) : runs[r].log[k].id # runs[r].el
  /\ \A r, q \in Runs :
       (r # q /\ runs[r].ty.active /\ runs[q].ty.active) => runs[r].el # runs[q].el
  /\ \A j, k \in 1..Len(screen) : j # k => screen[j].id # screen[k].id

\* two runs are typing at once, each on its own line of the screen
C18_TwoTyping ==
  /\ runs[1].ty.active
  /\ runs[2].ty.active
  /\ \E j, k \in 1..Len(screen) :
       /\ screen[j].id = runs[1].el
       /\ screen[k].id = runs[2].el
       /\ screen[j].command # << >>
       /\ screen[k].command # << >>

\* C19: the data and the timestamp of the cache change only when a request
\* succeeds with a non-empty normalized list: a call of fetchProjects that
\* fails, that returns the empty list, or that is served from the cache leaves
\* both as they were (a hit does not refresh the timestamp), and no other
\* operation writes the cache.
C19_CacheFrame ==
  [][/\ cache' # cache =>
          \E r \in Runs :
            /\ runs[r].pc = "fetching"
            /\ runs'[r].pc # "fetching"
            /\ runs'[r].fp.how = "ok"
            /\ runs'[r].fp.ret.value.list # Null
            /\ Len(runs'[r].fp.ret.value.list.items) > 0
            /\ cache' = [data |-> runs'[r].fp.ret.value, timestamp |-> now]
     /\ \A r \in Runs :
          /\ (~runs[r].fp.called /\ runs'[r].fp.called) => cache' = cache
          /\ (/\ runs[r].pc = "fetching"
              /\ runs'[r].pc # "fetching"
              /\ \/ runs'[r].fp.how # "ok"
                 \/ runs'[r].fp.ret.value.list = Arr(<< >>)) => cache' = cache]_vars

\* the second run was served from the cache, which still holds the data and
\* the timestamp of the first run's fetch
C19_HitLeftTimestamp ==
  /\ runs[2].pc = "done"
  /\ runs[2].fp.requests = 0
  /\ cache = runs[2].fp.stored
  /\ cache.timestamp < runs[2].fp.at
  /\ cache.data = runs[1].fp.ret.value

\* C20: expired cache data is never served: every list fetchProjects returned
\* without a request was stored less than CACHE_DURATION before the call, and
\* a call made with an expired cache entry issues a request and, when the
\* request fails, returns list null with an error, not the expired list.
C20_ExpiredNeverServed ==
  \A r \in Runs :
    LET fp == runs[r].fp
    IN  /\ (Returned(r) /\ fp.requests = 0) =>
             /\ fp.ret.value = fp.stored.data
             /\ fp.at - fp.stored.timestamp < CACHE_DURATION
        /\ (fp.called /\ fp.at - fp.stored.timestamp >= CACHE_DURATION) =>
             /\ fp.requests = 1
             /\ (Returned(r) /\ fp.how \in { "reject", "http", "syntax" }) =>
                  /\ fp.ret.value.list = Null
                  /\ fp.ret.value.error # Null
                  /\ fp.ret.value # fp.stored.data

\* the second run found the cached list expired, and its request was rejected
C20_ExpiredThenFailed ==
  /\ runs[2].pc = "done"
  /\ Truthy(runs[2].fp.stored.data)
  /\ runs[2].fp.at - runs[2].fp.stored.timestamp >= CACHE_DURATION
  /\ runs[2].fp.how = "reject"
  /\ runs[2].fp.ret.value.list = Null

====
